---- MODULE Spec2Model ----
(***************************************************************************)
(* Model of the email assistant relay: the /chat dispatcher and the        *)
(* per-operation endpoints of app.py, and DeepSeekClient of                *)
(* deepseek_logic.py (prompt construction, the buffered completion call    *)
(* and the streaming completion call with its line normalizer).            *)
(*                                                                         *)
(* Texts are sequences of tokens (strings); a literal of the source is one *)
(* token, a formatted value is spliced in as the tokens of its text.       *)
(* Python values that come out of json.loads are tagged records [t, v].    *)
(***************************************************************************)
EXTENDS Integers, Sequences, FiniteSets, TLC

VARIABLES pc, req, call, posted, resp, conn, lines, full_response, out, result,
          received, pending, ready, caller, loop, tasks, client

\* One request from its arrival to the end of its response.
request_vars ==
    <<pc, req, call, posted, resp, conn, lines, full_response, out, result>>

vars ==
    <<pc, req, call, posted, resp, conn, lines, full_response, out, result,
      received, pending, ready, caller, loop, tasks, client>>

(* ------------------------------ bounds --------------------------------- *)

\* Most upstream lines one streaming response delivers before it ends.
MaxLines == 3

\* Most keys a /chat request carries in its parameters dictionary.
MaxKeys == 2

\* Most upstream lines each of two concurrent streaming responses delivers.
MaxLoopLines == 2

(* ------------------------------ texts ---------------------------------- *)

RECURSIVE Dec(_)
\* str(n) of a non-negative integer, one token per decimal digit.
Dec(n) ==
    LET digit(d) == CASE d = 0 -> "0" [] d = 1 -> "1" [] d = 2 -> "2"
                      [] d = 3 -> "3" [] d = 4 -> "4" [] d = 5 -> "5"
                      [] d = 6 -> "6" [] d = 7 -> "7" [] d = 8 -> "8"
                      [] OTHER -> "9"
    IN  IF n < 10 THEN <<digit(n)>> ELSE Dec(n \div 10) \o <<digit(n % 10)>>

\* needle occurs in hay as a contiguous run of tokens (Python's `in` on str).
Contains(hay, needle) ==
    \E i \in 0..(Len(hay) - Len(needle)) :
        \A j \in 1..Len(needle) : hay[i + j] = needle[j]

StartsWith(s, prefix) ==
    /\ Len(s) >= Len(prefix)
    /\ \A j \in 1..Len(prefix) : s[j] = prefix[j]

\* Mutant of DropFirst: the slice starts one character early.
DropFirstOffByOne(s, n) == SubSeq(s, n, Len(s))

\* s[n:] of Python.
DropFirst(s, n) == SubSeq(s, n + 1, Len(s))

Last(q) == q[Len(q)]

\* str.splitlines(): the lines of s, ended by LF, CR or CR LF, and the
\* unterminated tail when there is one.
SplitLines(s) ==
    LET ends == {i \in 1..Len(s) :
                    \/ s[i] = "\n"
                    \/ s[i] = "\r" /\ ~(i < Len(s) /\ s[i + 1] = "\n")}
        k == Cardinality(ends)
        nth(j) == IF j = 0 THEN 0
                  ELSE CHOOSE e \in ends : Cardinality({x \in ends : x <= e}) = j
        width(e) == IF s[e] = "\n" /\ e > 1 /\ s[e - 1] = "\r" THEN 2 ELSE 1
    IN  [j \in 1..k |-> SubSeq(s, nth(j - 1) + 1, nth(j) - width(nth(j)))]
        \o (IF nth(k) < Len(s) THEN <<SubSeq(s, nth(k) + 1, Len(s))>> ELSE <<>>)

RECURSIVE ConcatAll(_)
\* The concatenation, in order, of a sequence of texts.
ConcatAll(q) == IF q = <<>> THEN <<>> ELSE Head(q) \o ConcatAll(Tail(q))

(* --------------------------- Python values ----------------------------- *)

JNull == [t |-> "null", v |-> <<>>]
JStr(s) == [t |-> "str", v |-> s]
JNum(n) == [t |-> "num", v |-> n]
JList(q) == [t |-> "list", v |-> q]
JObj(f) == [t |-> "obj", v |-> f]
JEmptyObj == JObj([k \in {} |-> JNull])

\* The order in which an object's keys are written out.
KeyOrder == <<"choices", "delta", "message", "role", "content",
              "finish_reason", "error">>

RECURSIVE JsonDumps(_), DumpItems(_), DumpMembers(_, _)
\* The JSON text of a value.
JsonDumps(j) ==
    CASE j.t = "null" -> <<"null">>
      [] j.t = "str" -> <<"\"">> \o j.v \o <<"\"">>
      [] j.t = "num" -> Dec(j.v)
      [] j.t = "list" -> <<"[">> \o DumpItems(j.v) \o <<"]">>
      [] OTHER ->
            <<"{">>
            \o DumpMembers(j.v, SelectSeq(KeyOrder, LAMBDA k : k \in DOMAIN j.v))
            \o <<"}">>

DumpItems(q) ==
    IF q = <<>> THEN <<>>
    ELSE JsonDumps(Head(q))
         \o (IF Len(q) > 1 THEN <<", ">> ELSE <<>>)
         \o DumpItems(Tail(q))

DumpMembers(f, keys) ==
    IF keys = <<>> THEN <<>>
    ELSE <<"\"", Head(keys), "\"", ": ">> \o JsonDumps(f[Head(keys)])
         \o (IF Len(keys) > 1 THEN <<", ">> ELSE <<>>)
         \o DumpMembers(f, Tail(keys))

(* --------------------------- the upstream ------------------------------ *)

\* Delta texts the completion endpoint streams, and whole replies it returns.
Deltas == {<<"Hi">>, <<" there">>}
Replies == {<<"SUMMARY:", "...">>}

\* One streaming frame {choices: [{delta: d, finish_reason: fr}]}.
Frame(d, fr) ==
    JObj([choices |-> JList(<<JObj([delta |-> d, finish_reason |-> fr])>>)])

ContentFrame(c) == Frame(JObj([content |-> JStr(c)]), JNull)
RoleFrame == Frame(JObj([role |-> JStr(<<"assistant">>)]), JNull)
FinishFrame == Frame(JEmptyObj, JStr(<<"stop">>))
FinishContentFrame(c) == Frame(JObj([content |-> JStr(c)]), JStr(<<"stop">>))
NullContentFrame == Frame(JObj([content |-> JNull]), JNull)
NoFinishFrame(c) ==
    JObj([choices |-> JList(<<JObj([delta |-> JObj([content |-> JStr(c)])])>>)])
NoDeltaFrame ==
    JObj([choices |-> JList(<<JObj([finish_reason |-> JNull])>>)])
EmptyChoicesFrame == JObj([choices |-> JList(<<>>)])
ErrorObject == JObj([error |-> JStr(<<"overloaded">>)])

\* One buffered reply {choices: [{message: {content: c}}]}.
ReplyBody(c) ==
    JObj([choices |-> JList(<<JObj([message |-> JObj([content |-> c])])>>)])

\* Frames of the documented shape.
ShapedFrames ==
    {ContentFrame(c) : c \in Deltas}
    \cup {RoleFrame, FinishFrame}
    \cup {FinishContentFrame(c) : c \in {<<" there">>}}

\* Valid JSON that is not of the documented frame shape.
UnshapedFrames ==
    {NullContentFrame, NoDeltaFrame, EmptyChoicesFrame, ErrorObject, JNum(123)}
    \cup {NoFinishFrame(c) : c \in {<<"Hi">>}}

\* Every value whose JSON text the upstream may send.
JsonUniverse ==
    ShapedFrames \cup UnshapedFrames
    \cup {ReplyBody(JStr(c)) : c \in Replies} \cup {ReplyBody(JNull)}

\* json.loads / response.json(): the value a text is the JSON of, or a
\* JSONDecodeError for a text that is the JSON of nothing.
JsonTexts == {<<JsonDumps(j), j>> : j \in JsonUniverse}

JsonLoads(text) ==
    IF \E e \in JsonTexts : e[1] = text
    THEN [ok |-> TRUE, value |-> (CHOOSE e \in JsonTexts : e[1] = text)[2]]
    ELSE [ok |-> FALSE, value |-> JNull]

(* ------------------------ Python subscripting -------------------------- *)

Exc(type, text) == [type |-> type, text |-> text]
NoExc == Exc("", <<>>)
Ok(value) == [ok |-> TRUE, value |-> value, exc |-> NoExc]
Raise(type, text) == [ok |-> FALSE, value |-> JNull, exc |-> Exc(type, text)]

\* x[key] for a string key.
Subscript(x, key) ==
    CASE x.t = "obj" ->
            IF key \in DOMAIN x.v THEN Ok(x.v[key])
            ELSE Raise("KeyError", <<"'", key, "'">>)
      [] x.t = "list" ->
            Raise("TypeError", <<"list indices must be integers or slices, not str">>)
      [] x.t = "str" ->
            Raise("TypeError", <<"string indices must be integers">>)
      [] x.t = "num" ->
            Raise("TypeError", <<"'int' object is not subscriptable">>)
      [] OTHER ->
            Raise("TypeError", <<"'NoneType' object is not subscriptable">>)

\* x[0].
First(x) ==
    CASE x.t = "list" ->
            IF x.v # <<>> THEN Ok(Head(x.v))
            ELSE Raise("IndexError", <<"list index out of range">>)
      [] x.t = "obj" -> Raise("KeyError", <<"0">>)
      [] x.t = "str" ->
            IF x.v # <<>> THEN Ok(JStr(<<Head(x.v)>>))
            ELSE Raise("IndexError", <<"string index out of range">>)
      [] x.t = "num" ->
            Raise("TypeError", <<"'int' object is not subscriptable">>)
      [] OTHER ->
            Raise("TypeError", <<"'NoneType' object is not subscriptable">>)

\* `key in x` for a string key.
HasKey(x, key) ==
    CASE x.t = "obj" -> Ok(key \in DOMAIN x.v)
      [] x.t = "list" -> Ok(\E i \in 1..Len(x.v) : x.v[i] = JStr(<<key>>))
      [] x.t = "str" -> Ok(Contains(x.v, <<key>>))
      [] x.t = "num" ->
            Raise("TypeError", <<"argument of type 'int' is not iterable">>)
      [] OTHER ->
            Raise("TypeError", <<"argument of type 'NoneType' is not iterable">>)

(* ------------------------- emitted records ----------------------------- *)

\* A key the emitted dictionary does not have.
Absent == [t |-> "absent", v |-> <<>>]
JBool(b) == [t |-> "bool", v |-> b]

\* Mutant of DeltaChunk: full repeats the delta instead of the accumulator.
DeltaChunkNoAccumulate(content, full) ==
    [code |-> JNum(200), data |-> JStr(content), full |-> JStr(content),
     msg |-> JStr(<<"Success">>), done |-> JBool(FALSE)]

\* The dictionary yielded for one content delta.
DeltaChunk(content, full) ==
    [code |-> JNum(200), data |-> JStr(content), full |-> JStr(full),
     msg |-> JStr(<<"Success">>), done |-> JBool(FALSE)]

\* Mutant of FinalChunk: the completion mark is not marked done.
FinalChunkNotDone(full) ==
    [code |-> JNum(200), data |-> JStr(<<>>), full |-> JStr(full),
     msg |-> JStr(<<"Success">>), done |-> JBool(FALSE)]

\* The completion mark.
FinalChunk(full) ==
    [code |-> JNum(200), data |-> JStr(<<>>), full |-> JStr(full),
     msg |-> JStr(<<"Success">>), done |-> JBool(TRUE)]

\* The dictionary yielded when the initial status is not 200.
StatusFailureChunk(status_code, text) ==
    [code |-> JNum(400), data |-> JNull, full |-> Absent,
     msg |-> JStr(<<"API request failed: ">> \o Dec(status_code)
                  \o <<", ">> \o text),
     done |-> Absent]

\* Mutant of ExceptionChunk: the handler's dictionary has no done key, like
\* the one for a failure status.
ExceptionChunkNotDone(e) ==
    [code |-> JNum(400), data |-> JNull, full |-> Absent,
     msg |-> JStr(<<"An error occurred: ">> \o e.text),
     done |-> Absent]

\* The dictionary yielded by generate_stream_response's exception handler.
ExceptionChunk(e) ==
    [code |-> JNum(400), data |-> JNull, full |-> Absent,
     msg |-> JStr(<<"An error occurred: ">> \o e.text),
     done |-> JBool(TRUE)]

(* ------------------------ the line normalizer -------------------------- *)

\* 'data: ', one token per character.
DataMarker == <<"d", "a", "t", "a", ":", " ">>
DoneToken == <<"[DONE]">>

\* A byte sequence that is not UTF-8.
BadByte == "\\xff"

Step(kind, content, exc) == [kind |-> kind, content |-> content, exc |-> exc]

\* Mutant of ProcessChunk: the delta's content is handled before the
\* finish_reason is looked at.
ProcessChunkContentFirst(chunk) ==
    LET choices == Subscript(chunk, "choices") IN
    IF ~choices.ok THEN Step("raise", <<>>, choices.exc) ELSE
    LET choice == First(choices.value) IN
    IF ~choice.ok THEN Step("raise", <<>>, choice.exc) ELSE
    LET delta == Subscript(choice.value, "delta") IN
    IF ~delta.ok THEN Step("raise", <<>>, delta.exc) ELSE
    LET has == HasKey(delta.value, "content") IN
    IF ~has.ok THEN Step("raise", <<>>, has.exc) ELSE
    IF has.value /\ delta.value.v["content"].t = "str"
    THEN Step("emit", delta.value.v["content"].v, NoExc) ELSE
    LET finish == Subscript(choice.value, "finish_reason") IN
    IF ~finish.ok THEN Step("raise", <<>>, finish.exc) ELSE
    IF finish.value.t # "null" THEN Step("break", <<>>, NoExc) ELSE
    IF ~has.value THEN Step("pass", <<>>, NoExc)
    ELSE Step("raise", <<>>,
              Exc("TypeError", <<"can only concatenate str to str">>))

\* What the loop does with one parsed chunk:
\*   "break" a finish_reason ends the loop
\*   "emit"  a content delta is appended and yielded
\*   "pass"  a delta without content: nothing happens
\*   "raise" an exception leaves the generator
ProcessChunk(chunk) ==
    LET choices == Subscript(chunk, "choices") IN
    IF ~choices.ok THEN Step("raise", <<>>, choices.exc) ELSE
    LET choice == First(choices.value) IN
    IF ~choice.ok THEN Step("raise", <<>>, choice.exc) ELSE
    LET finish == Subscript(choice.value, "finish_reason") IN
    IF ~finish.ok THEN Step("raise", <<>>, finish.exc) ELSE
    IF finish.value.t # "null" THEN Step("break", <<>>, NoExc) ELSE
    LET delta == Subscript(choice.value, "delta") IN
    IF ~delta.ok THEN Step("raise", <<>>, delta.exc) ELSE
    LET has == HasKey(delta.value, "content") IN
    IF ~has.ok THEN Step("raise", <<>>, has.exc) ELSE
    IF ~has.value THEN Step("pass", <<>>, NoExc) ELSE
    LET content == Subscript(delta.value, "content") IN
    IF ~content.ok THEN Step("raise", <<>>, content.exc) ELSE
    IF content.value.t # "str"
    THEN Step("raise", <<>>,
              Exc("TypeError", <<"can only concatenate str to str">>))
    ELSE Step("emit", content.value.v, NoExc)

\* Mutant of OnDecodeError: the decode error is not caught in the loop.
OnDecodeErrorRaise ==
    Step("raise", <<>>, Exc("JSONDecodeError", <<"Expecting value">>))

\* except json.JSONDecodeError: continue with the next line.
OnDecodeError == Step("skip", <<>>, NoExc)

\* The try block for one data payload.
ProcessData(data) ==
    LET parsed == JsonLoads(data) IN
    IF ~parsed.ok THEN OnDecodeError ELSE ProcessChunk(parsed.value)

\* Mutant of ProcessLine: the marker is looked for without its space.
ProcessLineNoSpace(line) ==
    IF line = <<>> THEN Step("pass", <<>>, NoExc)
    ELSE IF \E i \in 1..Len(line) : line[i] = BadByte
    THEN Step("raise", <<>>,
              Exc("UnicodeDecodeError", <<"'utf-8' codec can't decode byte 0xff">>))
    ELSE IF ~StartsWith(line, <<"d", "a", "t", "a", ":">>)
    THEN Step("pass", <<>>, NoExc)
    ELSE LET data == DropFirst(line, 5) IN
         IF data = DoneToken THEN Step("break", <<>>, NoExc)
         ELSE ProcessData(data)

\* One iteration of the loop over response.iter_lines().
ProcessLine(line) ==
    IF line = <<>> THEN Step("pass", <<>>, NoExc)
    ELSE IF \E i \in 1..Len(line) : line[i] = BadByte
    THEN Step("raise", <<>>,
              Exc("UnicodeDecodeError", <<"'utf-8' codec can't decode byte 0xff">>))
    ELSE IF ~StartsWith(line, DataMarker) THEN Step("pass", <<>>, NoExc)
    ELSE LET data == DropFirst(line, 6) IN
         IF data = DoneToken THEN Step("break", <<>>, NoExc)
         ELSE ProcessData(data)

(* ------------------------- prompt construction ------------------------- *)

system_prompt ==
    <<"Always respond in English. You are a professional email assistant who can:\n1. Correct grammar and spelling errors in emails.\n2. Adjust tone and style (formal, friendly, professional, etc.).\n3. Suggest rewrites for clarity and impact.\n4. Translate emails into different languages.\n5. Provide email templates for various scenarios.\n6. Summarize long emails into concise key points.\n7. Generate emails for specific use cases based on simple instructions.\n\nUnderstand the user's intent and reply helpfully, maintaining context across multiple turns.\n">>

Message(role, content) == [role |-> role, content |-> content]

NoneHistory == [isNone |-> TRUE, q |-> <<>>]
SomeHistory(q) == [isNone |-> FALSE, q |-> q]

AnalyzePrompt(email_content) ==
    <<"Please analyze the following email and provide:\n1. A concise summary of its main points.\n2. Corrections for any grammar or spelling errors.\n3. Feedback on tone and style, with suggestions for improvement.\n4. An evaluation of overall structure and clarity.\n\nEmail content:\n">>
    \o email_content \o <<"\n">>

AnalyzeStreamPrompt(email_content) ==
    <<"Please analyze the following email and provide:\n1. A concise summary of its main points.\n2. Corrections for any grammar or spelling errors.\n3. Feedback on tone and style, with suggestions for improvement.\n4. An evaluation of overall structure and clarity.\n\nEmail content:\n">>
    \o email_content \o <<"\n">>

RewritePrompt(email_content, requirements) ==
    <<"Please rewrite the following email according to these requirements:\nRequirements: ">>
    \o requirements \o <<"\n\nOriginal email:\n">> \o email_content
    \o <<"\n\nPlease provide the fully rewritten email.\n">>

RewriteStreamPrompt(email_content, requirements) ==
    <<"Please rewrite the following email according to these requirements:\nRequirements: ">>
    \o requirements \o <<"\n\nOriginal email:\n">> \o email_content
    \o <<"\n\nProvide the fully rewritten email.\n">>

TranslatePrompt(email_content, target_language) ==
    <<"Please translate the following email into ">> \o target_language
    \o <<", preserving its meaning and tone:\n\nOriginal email:\n">>
    \o email_content \o <<"\n\nTranslation into ">> \o target_language
    \o <<":\n">>

TranslateStreamPrompt(email_content, target_language) ==
    <<"Please translate the following email into ">> \o target_language
    \o <<", preserving its meaning and tone:\n\nOriginal email:\n">>
    \o email_content \o <<"\n\nTranslation into ">> \o target_language
    \o <<":\n">>

TemplatePrompt(scenario) ==
    <<"Please generate a professional email template for the following scenario:\nScenario: ">>
    \o scenario
    \o <<"\n\nProvide a complete email including a subject line and body. You may use placeholders like [Name], [Company], etc., for user-specific details.\n">>

TemplateStreamPrompt(scenario) ==
    <<"Please generate a professional email template for the following scenario:\nScenario: ">>
    \o scenario
    \o <<"\n\nProvide a complete email including a subject line and body. You may use placeholders like [Name], [Company], etc., for user-specific details.\n">>

FollowUpPrompt(previous_email, instruction) ==
    <<"Based on the following prior email and the instruction \"">>
    \o instruction
    \o <<"\", please craft an appropriate follow-up email:\n\nPrevious email:\n">>
    \o previous_email
    \o <<"\n\nPlease provide a complete follow-up email including subject line and body.\n">>

\* Mutant of FollowUpStreamPrompt: the instruction is left out of the text.
FollowUpStreamPromptNoInstruction(previous_email, instruction) ==
    <<"Based on the following previous email and the instruction \"">>
    \o <<"\", please generate an appropriate follow-up email:\n\nPrevious email:\n">>
    \o previous_email
    \o <<"\n\nPlease provide a complete follow-up email including subject line and body.\n">>

FollowUpStreamPrompt(previous_email, instruction) ==
    <<"Based on the following previous email and the instruction \"">>
    \o instruction
    \o <<"\", please generate an appropriate follow-up email:\n\nPrevious email:\n">>
    \o previous_email
    \o <<"\n\nPlease provide a complete follow-up email including subject line and body.\n">>

\* A call of one client method: its name, its positional arguments and the
\* history it passes on (None for the five templated operations).
Call(op, args, history) == [op |-> op, args |-> args, history |-> history]
NoCall == Call("", <<>>, NoneHistory)

BufferedOps ==
    {"generate_response", "analyze_email", "rewrite_email", "translate_email",
     "generate_email_template", "generate_follow_up_email"}

StreamOps ==
    {"generate_stream_response", "analyze_email_stream", "rewrite_email_stream",
     "translate_email_stream", "generate_email_template_stream",
     "generate_follow_up_email_stream"}

\* The user_message the called method hands to generate_response or
\* generate_stream_response.
UserMessage(c) ==
    CASE c.op = "analyze_email" -> AnalyzePrompt(c.args[1])
      [] c.op = "analyze_email_stream" -> AnalyzeStreamPrompt(c.args[1])
      [] c.op = "rewrite_email" -> RewritePrompt(c.args[1], c.args[2])
      [] c.op = "rewrite_email_stream" -> RewriteStreamPrompt(c.args[1], c.args[2])
      [] c.op = "translate_email" -> TranslatePrompt(c.args[1], c.args[2])
      [] c.op = "translate_email_stream" -> TranslateStreamPrompt(c.args[1], c.args[2])
      [] c.op = "generate_email_template" -> TemplatePrompt(c.args[1])
      [] c.op = "generate_email_template_stream" -> TemplateStreamPrompt(c.args[1])
      [] c.op = "generate_follow_up_email" -> FollowUpPrompt(c.args[1], c.args[2])
      [] c.op = "generate_follow_up_email_stream" ->
            FollowUpStreamPrompt(c.args[1], c.args[2])
      [] OTHER -> c.args[1]

\* The message list generate_response builds.
ResponseMessages(user_message, history) ==
    <<Message("system", system_prompt)>>
    \o (IF history.isNone THEN <<>> ELSE history.q)
    \o <<Message("user", user_message)>>

\* Mutant of StreamMessages: the history is extended after the user message.
StreamMessagesHistoryLast(user_message, history) ==
    <<Message("system", system_prompt)>>
    \o <<Message("user", user_message)>>
    \o (IF history.isNone THEN <<>> ELSE history.q)

\* The message list generate_stream_response builds.
StreamMessages(user_message, history) ==
    <<Message("system", system_prompt)>>
    \o (IF history.isNone THEN <<>> ELSE history.q)
    \o <<Message("user", user_message)>>

Payload(messages, stream) ==
    [model |-> "deepseek-chat", messages |-> messages, temperature |-> "0.7",
     max_tokens |-> 2000, stream |-> stream]

ResponsePayload(c) ==
    Payload(ResponseMessages(UserMessage(c), c.history), FALSE)

StreamPayload(c) ==
    Payload(StreamMessages(UserMessage(c), c.history), TRUE)

(* ---------------------------- requests --------------------------------- *)

\* An Optional[str] and an Optional[Dict[str, Any]] of a request body.
NoneStr == [isNone |-> TRUE, s |-> ""]
SomeStr(s) == [isNone |-> FALSE, s |-> s]
NoneDict == [isNone |-> TRUE, d |-> [k \in {} |-> <<>>]]
SomeDict(d) == [isNone |-> FALSE, d |-> d]

\* Python truth of an optional string / an optional dictionary.
TruthyStr(a) == ~a.isNone /\ a.s # ""
TruthyDict(p) == ~p.isNone /\ DOMAIN p.d # {}

ChatRequest(message, history, action, parameters, stream) ==
    [message |-> message, history |-> history, action |-> action,
     parameters |-> parameters, stream |-> stream]

Request(endpoint, body) == [endpoint |-> endpoint, body |-> body]
NoRequest == Request("", <<>>)

ParamKeys ==
    {"email_content", "requirements", "target_language", "scenario",
     "previous_email", "instruction"}

\* The keys each named action of /chat looks for.
RequiredKeys(action) ==
    CASE action = "analyze" -> {"email_content"}
      [] action = "rewrite" -> {"email_content", "requirements"}
      [] action = "translate" -> {"email_content", "target_language"}
      [] action = "template" -> {"scenario"}
      [] action = "follow_up" -> {"previous_email", "instruction"}
      [] OTHER -> {}

KnownActions == {"analyze", "rewrite", "translate", "template", "follow_up"}

(* ---------------------------- dispatcher ------------------------------- *)

\* Mutant of StreamFallback: the fallback drops the caller's history.
StreamFallbackNoHistory(r) ==
    Call("generate_stream_response", <<r.message>>, NoneHistory)

\* Plain chat with the caller's message and history.
ChatFallback(r) == Call("generate_response", <<r.message>>, r.history)
StreamFallback(r) == Call("generate_stream_response", <<r.message>>, r.history)

\* Mutant of ChatSelect: rewrite_email is called with its two arguments
\* the wrong way round.
ChatSelectSwapped(r) ==
    LET a == r.action
        p == r.parameters
        has(k) == TruthyDict(p) /\ k \in DOMAIN p.d
    IN  IF TruthyStr(a)
        THEN IF a.s = "analyze" /\ has("email_content")
             THEN Call("analyze_email", <<p.d["email_content"]>>, NoneHistory)
             ELSE IF a.s = "rewrite" /\ has("email_content") /\ has("requirements")
             THEN Call("rewrite_email",
                       <<p.d["requirements"], p.d["email_content"]>>, NoneHistory)
             ELSE IF a.s = "translate" /\ has("email_content")
                                       /\ has("target_language")
             THEN Call("translate_email",
                       <<p.d["email_content"], p.d["target_language"]>>,
                       NoneHistory)
             ELSE IF a.s = "template" /\ has("scenario")
             THEN Call("generate_email_template", <<p.d["scenario"]>>, NoneHistory)
             ELSE IF a.s = "follow_up" /\ has("previous_email")
                                       /\ has("instruction")
             THEN Call("generate_follow_up_email",
                       <<p.d["previous_email"], p.d["instruction"]>>, NoneHistory)
             ELSE ChatFallback(r)
        ELSE ChatFallback(r)

\* The client call chat() makes for a request that does not ask for a stream.
ChatSelect(r) ==
    LET a == r.action
        p == r.parameters
        has(k) == TruthyDict(p) /\ k \in DOMAIN p.d
    IN  IF TruthyStr(a)
        THEN IF a.s = "analyze" /\ has("email_content")
             THEN Call("analyze_email", <<p.d["email_content"]>>, NoneHistory)
             ELSE IF a.s = "rewrite" /\ has("email_content") /\ has("requirements")
             THEN Call("rewrite_email",
                       <<p.d["email_content"], p.d["requirements"]>>, NoneHistory)
             ELSE IF a.s = "translate" /\ has("email_content")
                                       /\ has("target_language")
             THEN Call("translate_email",
                       <<p.d["email_content"], p.d["target_language"]>>,
                       NoneHistory)
             ELSE IF a.s = "template" /\ has("scenario")
             THEN Call("generate_email_template", <<p.d["scenario"]>>, NoneHistory)
             ELSE IF a.s = "follow_up" /\ has("previous_email")
                                       /\ has("instruction")
             THEN Call("generate_follow_up_email",
                       <<p.d["previous_email"], p.d["instruction"]>>, NoneHistory)
             ELSE ChatFallback(r)
        ELSE ChatFallback(r)

\* Mutant of HandleStreamSelect: the named operations are handed the
\* caller's history as plain chat is.
HandleStreamSelectKeepsHistory(r) ==
    LET a == r.action
        p == r.parameters
        has(k) == TruthyDict(p) /\ k \in DOMAIN p.d
    IN  IF TruthyStr(a)
        THEN IF a.s = "analyze" /\ has("email_content")
             THEN Call("analyze_email_stream", <<p.d["email_content"]>>, r.history)
             ELSE IF a.s = "rewrite" /\ has("email_content") /\ has("requirements")
             THEN Call("rewrite_email_stream",
                       <<p.d["email_content"], p.d["requirements"]>>, r.history)
             ELSE IF a.s = "translate" /\ has("email_content")
                                       /\ has("target_language")
             THEN Call("translate_email_stream",
                       <<p.d["email_content"], p.d["target_language"]>>,
                       r.history)
             ELSE IF a.s = "template" /\ has("scenario")
             THEN Call("generate_email_template_stream", <<p.d["scenario"]>>,
                       r.history)
             ELSE IF a.s = "follow_up" /\ has("previous_email")
                                       /\ has("instruction")
             THEN Call("generate_follow_up_email_stream",
                       <<p.d["previous_email"], p.d["instruction"]>>, r.history)
             ELSE StreamFallback(r)
        ELSE StreamFallback(r)

\* The generator handle_stream_chat() creates.
HandleStreamSelect(r) ==
    LET a == r.action
        p == r.parameters
        has(k) == TruthyDict(p) /\ k \in DOMAIN p.d
    IN  IF TruthyStr(a)
        THEN IF a.s = "analyze" /\ has("email_content")
             THEN Call("analyze_email_stream", <<p.d["email_content"]>>, NoneHistory)
             ELSE IF a.s = "rewrite" /\ has("email_content") /\ has("requirements")
             THEN Call("rewrite_email_stream",
                       <<p.d["email_content"], p.d["requirements"]>>, NoneHistory)
             ELSE IF a.s = "translate" /\ has("email_content")
                                       /\ has("target_language")
             THEN Call("translate_email_stream",
                       <<p.d["email_content"], p.d["target_language"]>>,
                       NoneHistory)
             ELSE IF a.s = "template" /\ has("scenario")
             THEN Call("generate_email_template_stream", <<p.d["scenario"]>>,
                       NoneHistory)
             ELSE IF a.s = "follow_up" /\ has("previous_email")
                                       /\ has("instruction")
             THEN Call("generate_follow_up_email_stream",
                       <<p.d["previous_email"], p.d["instruction"]>>, NoneHistory)
             ELSE StreamFallback(r)
        ELSE StreamFallback(r)

(* ------------------------ the buffered call ---------------------------- *)

\* What the completion endpoint does with one POST: the transport raises, or
\* a response with a status code and a body text comes back.
Raises(e) == [raises |-> TRUE, exc |-> e, status_code |-> 0, text |-> <<>>]
Responds(status_code, text) ==
    [raises |-> FALSE, exc |-> NoExc, status_code |-> status_code, text |-> text]

Envelope(code, data, msg) ==
    [code |-> JNum(code), data |-> data, msg |-> JStr(msg)]
NoResult == [code |-> Absent, data |-> Absent, msg |-> Absent]

ErrorEnvelope(e) == Envelope(400, JNull, <<"An error occurred: ">> \o e.text)

\* Mutant of StatusEnvelope: the upstream status is passed through as code.
StatusEnvelopePassThrough(status_code, text) ==
    Envelope(status_code, JNull,
             <<"API request failed: ">> \o Dec(status_code) \o <<", ">> \o text)

\* The dictionary returned for a status code other than 200.
StatusEnvelope(status_code, text) ==
    Envelope(400, JNull,
             <<"API request failed: ">> \o Dec(status_code) \o <<", ">> \o text)

\* result["choices"][0]["message"]["content"]
ReplyContent(body) ==
    LET choices == Subscript(body, "choices") IN
    IF ~choices.ok THEN choices ELSE
    LET choice == First(choices.value) IN
    IF ~choice.ok THEN choice ELSE
    LET message == Subscript(choice.value, "message") IN
    IF ~message.ok THEN message ELSE
    Subscript(message.value, "content")

\* The try block of generate_response: the dictionary it returns, or the
\* exception that leaves it.
TryGenerate(u) ==
    IF u.raises THEN Raise(u.exc.type, u.exc.text)
    ELSE IF u.status_code = 200
    THEN LET parsed == JsonLoads(u.text) IN
         IF ~parsed.ok THEN Raise("JSONDecodeError", <<"Expecting value">>)
         ELSE LET content == ReplyContent(parsed.value) IN
              IF content.ok THEN Ok(Envelope(200, content.value, <<"Success">>))
              ELSE content
    ELSE Ok(StatusEnvelope(u.status_code, u.text))

\* Mutant of GenerateResponse: no `except Exception` around the try block.
GenerateResponseNoCatch(u) == TryGenerate(u)

\* generate_response: the try block under `except Exception`.
GenerateResponse(u) ==
    LET t == TryGenerate(u) IN
    IF t.ok THEN t ELSE Ok(ErrorEnvelope(t.exc))

\* The handlers' own `except Exception`, with each handler's message.
HandlerError(prefix, e) == Envelope(400, JNull, <<prefix>> \o e.text)
ChatErrorPrefix == "Error processing request: "
EndpointErrorPrefix == "An error occurred while processing the request: "

(* --------------------------- input sets -------------------------------- *)

\* Parameter values, caller messages and histories.
Vals == {<<"Hi, pls send the report asap.">>, <<"formal">>}
Msgs == {<<"hello">>, <<"thanks">>}
Histories ==
    {NoneHistory, SomeHistory(<<>>),
     SomeHistory(<<Message("user", <<"hi">>), Message("assistant", <<"Hello!">>)>>)}

Actions ==
    {NoneStr, SomeStr("")} \cup {SomeStr(a) : a \in KnownActions}
    \cup {SomeStr("summarize")}

\* Every dictionary with at most MaxKeys of the parameter keys.
ParamDicts(vals) ==
    {NoneDict}
    \cup UNION {{SomeDict(d) : d \in [S -> vals]} :
                   S \in {T \in SUBSET ParamKeys : Cardinality(T) <= MaxKeys}}

ChatRequests ==
    {ChatRequest(m, h, a, p, st) :
        m \in Msgs, h \in Histories, a \in Actions, p \in ParamDicts(Vals),
        st \in BOOLEAN}

\* The dictionary with exactly the keys an action looks for.
RequiredDict(action, val) == SomeDict([k \in RequiredKeys(action) |-> val])

\* A small set of /chat requests that reaches every client method and the
\* fallback.
CoreVal == <<"Hi, pls send the report asap.">>
CoreChatRequests ==
    {ChatRequest(<<"hello">>, NoneHistory, SomeStr(a), RequiredDict(a, CoreVal), st) :
        a \in KnownActions, st \in BOOLEAN}
    \cup {ChatRequest(<<"hello">>, h, a, NoneDict, st) :
            h \in {SomeHistory(<<Message("user", <<"hi">>)>>)},
            a \in {NoneStr, SomeStr("summarize"), SomeStr("analyze")},
            st \in BOOLEAN}

AnalyzeRequests(vals) ==
    {[email_content |-> e, stream |-> st] : e \in vals, st \in BOOLEAN}
RewriteRequests(vals) ==
    {[email_content |-> e, requirements |-> q, stream |-> st] :
        e \in vals, q \in vals, st \in BOOLEAN}
TranslateRequests(vals) ==
    {[email_content |-> e, target_language |-> l, stream |-> st] :
        e \in vals, l \in vals, st \in BOOLEAN}
TemplateRequests(vals) ==
    {[scenario |-> sc, stream |-> st] : sc \in vals, st \in BOOLEAN}
FollowUpRequests(vals) ==
    {[previous_email |-> e, instruction |-> i, stream |-> st] :
        e \in vals, i \in vals, st \in BOOLEAN}

TransportErrors == {Exc("ConnectionError", <<"Connection refused">>)}
FailStatuses == {401, 429, 500}
ErrorBodies == {<<"Internal Server Error">>, JsonDumps(ErrorObject)}

\* JSON cut short, and text that is no JSON at all.
Truncated == SubSeq(JsonDumps(ContentFrame(<<"Hi">>)), 1, 9)
Garbage == <<"<html>", "Bad Gateway", "</html>">>

BufferedBodies ==
    {JsonDumps(ReplyBody(JStr(c))) : c \in Replies}
    \cup {JsonDumps(ReplyBody(JNull)), JsonDumps(ErrorObject),
          JsonDumps(EmptyChoicesFrame), Truncated, Garbage}

FailureOutcomes ==
    {Raises(e) : e \in TransportErrors}
    \cup {Responds(s, b) : s \in FailStatuses, b \in ErrorBodies}

BufferedOutcomes ==
    FailureOutcomes \cup {Responds(200, b) : b \in BufferedBodies}

StreamOutcomes == FailureOutcomes \cup {Responds(200, <<>>)}

\* The lines response.iter_lines() may deliver.
UpstreamLines ==
    {<<>>}
    \cup {DataMarker \o JsonDumps(f) : f \in ShapedFrames \cup UnshapedFrames}
    \cup {DataMarker \o DoneToken, DataMarker \o Truncated, DataMarker \o Garbage}
    \cup {<<":", " keep-alive">>,
          <<"d", "a", "t", "a", ":">> \o JsonDumps(ContentFrame(<<"Hi">>)),
          <<BadByte>>}

ReadErrors == {Exc("ChunkedEncodingError", <<"Connection broken">>)}

(* ------------------------------ state ---------------------------------- *)

NoResponse == Responds(0, <<>>)

\* iter_lines' pending: None, or the unterminated tail of the last chunk.
NonePending == [isNone |-> TRUE, s |-> <<>>]
SomePending(s) == [isNone |-> FALSE, s |-> s]

\* Mutant of IterLinesChunk: the loop runs over iter_content(), every
\* network chunk taken for a line.
IterContentChunk(pend, chunk) == [lines |-> <<chunk>>, pending |-> NonePending]

\* What iter_lines does with one chunk of iter_content(): the lines it
\* yields and the pending tail it keeps for the next chunk.
IterLinesChunk(pend, chunk) ==
    LET data == IF pend.isNone THEN chunk ELSE pend.s \o chunk
        ls == SplitLines(data)
    IN  IF ls # <<>> /\ Last(ls) # <<>> /\ data # <<>>
           /\ Last(Last(ls)) = Last(data)
        THEN [lines |-> SubSeq(ls, 1, Len(ls) - 1),
              pending |-> SomePending(Last(ls))]
        ELSE [lines |-> ls, pending |-> NonePending]

\* The module-level client every handler shares.
DEEPSEEK_API_KEY == <<"secret">>
DeepSeekClient ==
    [api_key |-> DEEPSEEK_API_KEY,
     headers |-> [ContentType |-> <<"application/json">>,
                  Authorization |-> <<"Bearer ">> \o DEEPSEEK_API_KEY],
     system_prompt |-> system_prompt]

\* The requests in flight on the event loop; NoTask: the loop is idle.
Tasks == {1, 2}
NoTask == 0
TaskState(mode, tpc, tresp, tlines, tfull, tout, tresult) ==
    [mode |-> mode, pc |-> tpc, resp |-> tresp, lines |-> tlines,
     full_response |-> tfull, out |-> tout, result |-> tresult]
NoTaskState == TaskState("", "idle", NoResponse, <<>>, <<>>, <<>>, NoResult)

Init ==
    /\ pc = "idle"
    /\ req = NoRequest
    /\ call = NoCall
    /\ posted = <<>>
    /\ resp = NoResponse
    /\ conn = "none"
    /\ lines = <<>>
    /\ full_response = <<>>
    /\ out = <<>>
    /\ result = NoResult
    /\ received = 0
    /\ pending = NonePending
    /\ ready = <<>>
    /\ caller = "attached"
    /\ loop = NoTask
    /\ tasks = [i \in Tasks |-> NoTaskState]
    /\ client = DeepSeekClient

(* --------------------------- client calls ------------------------------ *)

\* Mutant of BufferedCall: a failed POST is sent a second time.
BufferedCallRetry(c, u, prefix) ==
    /\ call' = c
    /\ posted' = IF u.raises \/ u.status_code # 200
                 THEN posted \o <<ResponsePayload(c), ResponsePayload(c)>>
                 ELSE Append(posted, ResponsePayload(c))
    /\ resp' = u
    /\ conn' = IF u.raises THEN "none" ELSE "released"
    /\ LET r == GenerateResponse(u) IN
       result' = IF r.ok THEN r.value ELSE HandlerError(prefix, r.exc)
    /\ pc' = "done"
    /\ UNCHANGED <<lines, full_response, out>>
    /\ UNCHANGED <<received, pending, ready, caller, loop, tasks, client>>

\* A buffered client method runs to its return inside the handler: one POST
\* whose response is read whole, one envelope; an exception that leaves the
\* client is turned into an envelope by the handler.
BufferedCall(c, u, prefix) ==
    /\ call' = c
    /\ posted' = Append(posted, ResponsePayload(c))
    /\ resp' = u
    /\ conn' = IF u.raises THEN "none" ELSE "released"
    /\ LET r == GenerateResponse(u) IN
       result' = IF r.ok THEN r.value ELSE HandlerError(prefix, r.exc)
    /\ pc' = "done"
    /\ UNCHANGED <<lines, full_response, out>>
    /\ UNCHANGED <<received, pending, ready, caller, loop, tasks, client>>

\* A streaming client method returns a generator that has not started; the
\* handler wraps it in a StreamingResponse.
StreamingResponse(c) ==
    /\ call' = c
    /\ pc' = "stream"
    /\ UNCHANGED <<posted, resp, conn, lines, full_response, out, result>>
    /\ UNCHANGED <<received, pending, ready, caller, loop, tasks, client>>

\* The generator's first resumption: build the payload and POST it with
\* stream=True, which leaves the connection open behind the response.
StreamPost(u) ==
    /\ pc = "stream"
    /\ posted' = Append(posted, StreamPayload(call))
    /\ resp' = u
    /\ conn' = IF u.raises THEN "none" ELSE "open"
    /\ IF u.raises
       THEN out' = Append(out, ExceptionChunk(u.exc)) /\ pc' = "done"
       ELSE IF u.status_code # 200
       THEN /\ out' = Append(out, StatusFailureChunk(u.status_code, u.text))
            /\ pc' = "done"
       ELSE out' = out /\ pc' = "reading"
    /\ UNCHANGED <<req, call, lines, full_response, result>>
    /\ UNCHANGED <<received, pending, ready, caller, loop, tasks, client>>

\* Mutant of LoopBody: a content delta is accumulated and not yielded.
LoopBodyBuffered(line) ==
    /\ pc = "reading"
    /\ lines' = Append(lines, line)
    /\ LET s == ProcessLine(line) IN
       CASE s.kind = "emit" ->
               /\ full_response' = full_response \o s.content
               /\ UNCHANGED <<out, pc>>
         [] s.kind = "break" ->
               /\ out' = Append(out, FinalChunk(full_response))
               /\ pc' = "done"
               /\ UNCHANGED full_response
         [] s.kind = "raise" ->
               /\ out' = Append(out, ExceptionChunk(s.exc))
               /\ pc' = "done"
               /\ UNCHANGED full_response
         [] OTHER -> UNCHANGED <<full_response, out, pc>>
    /\ UNCHANGED <<req, call, posted, resp, conn, result>>

\* One iteration of the loop over response.iter_lines(), up to its yield.
LoopBody(line) ==
    /\ pc = "reading"
    /\ lines' = Append(lines, line)
    /\ LET s == ProcessLine(line) IN
       CASE s.kind = "emit" ->
               /\ full_response' = full_response \o s.content
               /\ out' = Append(out, DeltaChunk(s.content, full_response'))
               /\ pc' = "reading"
         [] s.kind = "break" ->
               /\ out' = Append(out, FinalChunk(full_response))
               /\ pc' = "done"
               /\ UNCHANGED full_response
         [] s.kind = "raise" ->
               /\ out' = Append(out, ExceptionChunk(s.exc))
               /\ pc' = "done"
               /\ UNCHANGED full_response
         [] OTHER -> UNCHANGED <<full_response, out, pc>>
    /\ UNCHANGED <<req, call, posted, resp, conn, result>>

\* One line of response.iter_lines().
ReadLine(line) ==
    /\ Len(lines) < MaxLines
    /\ LoopBody(line)
    /\ UNCHANGED <<received, pending, ready, caller, loop, tasks, client>>

\* response.iter_lines() is exhausted without a terminator.
StreamEnd ==
    /\ pc = "reading"
    /\ conn' = "eof"
    /\ out' = Append(out, FinalChunk(full_response))
    /\ pc' = "done"
    /\ UNCHANGED <<req, call, posted, resp, lines, full_response, result>>
    /\ UNCHANGED <<received, pending, ready, caller, loop, tasks, client>>

\* response.iter_lines() raises in the middle of the stream.
ReadError(e) ==
    /\ pc = "reading"
    /\ conn' = "broken"
    /\ out' = Append(out, ExceptionChunk(e))
    /\ pc' = "done"
    /\ UNCHANGED <<req, call, posted, resp, lines, full_response, result>>
    /\ UNCHANGED <<received, pending, ready, caller, loop, tasks, client>>

(* --------------------------- the event loop ---------------------------- *)

\* Mutant of Accumulate: the accumulator is kept where every request's
\* generator writes to it.
AccumulateShared(ts, i, content) ==
    ConcatAll([j \in 1..Cardinality(Tasks) |-> ts[j].full_response]) \o content

\* full_response += content, on the local variable of request i's generator.
Accumulate(ts, i, content) == ts[i].full_response \o content

\* Request i arrives and the loop runs its handler. A buffered handler
\* calls requests.post on the loop's own thread and stays in it; a streaming
\* handler creates the generator and returns the StreamingResponse.
Accept(i, mode) ==
    /\ loop = NoTask
    /\ tasks[i].pc = "idle"
    /\ tasks' = [tasks EXCEPT ![i].mode = mode,
                              ![i].pc = IF mode = "buffered" THEN "posting"
                                        ELSE "created"]
    /\ loop' = IF mode = "buffered" THEN i ELSE NoTask
    /\ UNCHANGED <<client, request_vars, received, pending, ready, caller>>

\* The buffered round trip of request i ends and its handler returns.
PostReturns(i, u) ==
    /\ tasks[i].mode = "buffered"
    /\ tasks[i].pc = "posting"
    /\ tasks' = [tasks EXCEPT ![i].resp = u,
                              ![i].result = GenerateResponse(u).value,
                              ![i].pc = "done"]
    /\ loop' = NoTask
    /\ UNCHANGED <<client, request_vars, received, pending, ready, caller>>

\* The loop resumes the generator of request i: at its start it goes into
\* session.post, after a delta chunk back into response.iter_lines(), both
\* calls that return only when the upstream has answered; after any other
\* chunk it runs to its end.
Resume(i) ==
    /\ loop = NoTask
    /\ tasks[i].pc \in {"created", "yielded"}
    /\ LET t == tasks[i]
           goes_on == t.pc = "created" \/ Last(t.out).done = JBool(FALSE)
       IN  /\ tasks' = [tasks EXCEPT ![i].pc =
                           IF t.pc = "created" THEN "posting"
                           ELSE IF goes_on THEN "reading" ELSE "done"]
           /\ loop' = IF goes_on THEN i ELSE NoTask
    /\ UNCHANGED <<client, request_vars, received, pending, ready, caller>>

\* The streaming POST of request i is answered.
StreamAnswered(i, u) ==
    /\ tasks[i].mode = "stream"
    /\ tasks[i].pc = "posting"
    /\ IF u.raises \/ u.status_code # 200
       THEN /\ tasks' = [tasks EXCEPT
                            ![i].resp = u,
                            ![i].out = <<IF u.raises THEN ExceptionChunk(u.exc)
                                         ELSE StatusFailureChunk(u.status_code,
                                                                 u.text)>>,
                            ![i].pc = "yielded"]
            /\ loop' = NoTask
       ELSE /\ tasks' = [tasks EXCEPT ![i].resp = u, ![i].pc = "reading"]
            /\ loop' = loop
    /\ UNCHANGED <<client, request_vars, received, pending, ready, caller>>

\* One line of request i's response arrives and its loop body runs up to
\* the next yield.
Line(i, line) ==
    /\ tasks[i].pc = "reading"
    /\ Len(tasks[i].lines) < MaxLoopLines
    /\ LET t == tasks[i]
           s == ProcessLine(line)
           full == Accumulate(tasks, i, s.content)
       IN  CASE s.kind = "emit" ->
                   /\ tasks' = [tasks EXCEPT
                                   ![i].lines = Append(t.lines, line),
                                   ![i].full_response = full,
                                   ![i].out = Append(t.out,
                                                     DeltaChunk(s.content, full)),
                                   ![i].pc = "yielded"]
                   /\ loop' = NoTask
             [] s.kind \in {"break", "raise"} ->
                   /\ tasks' = [tasks EXCEPT
                                   ![i].lines = Append(t.lines, line),
                                   ![i].out = Append(t.out,
                                       IF s.kind = "break"
                                       THEN FinalChunk(t.full_response)
                                       ELSE ExceptionChunk(s.exc)),
                                   ![i].pc = "yielded"]
                   /\ loop' = NoTask
             [] OTHER ->
                   /\ tasks' = [tasks EXCEPT ![i].lines = Append(t.lines, line)]
                   /\ loop' = loop
    /\ UNCHANGED <<client, request_vars, received, pending, ready, caller>>

\* The body of request i's response ends.
BodyEnds(i) ==
    /\ tasks[i].pc = "reading"
    /\ tasks' = [tasks EXCEPT
                    ![i].out = Append(tasks[i].out,
                                      FinalChunk(tasks[i].full_response)),
                    ![i].pc = "yielded"]
    /\ loop' = NoTask
    /\ UNCHANGED <<client, request_vars, received, pending, ready, caller>>

(* ----------------------- the caller goes away -------------------------- *)

\* The caller drops the connection while the generator is in its loop. The
\* generator is inside response.iter_lines(), a blocking read with no
\* timeout, and is told nothing.
Disconnect ==
    /\ pc = "reading"
    /\ caller = "attached"
    /\ caller' = "detached"
    /\ UNCHANGED <<request_vars, received, pending, ready, loop, tasks, client>>

\* One line arrives after the caller has gone. A line that yields nothing
\* keeps the generator in its loop; at a yield the chunk goes to a response
\* that is no longer being sent and the generator is not resumed. No branch
\* closes the response or the session.
ReadLineDetached(line) ==
    /\ pc = "reading"
    /\ caller = "detached"
    /\ Len(lines) < MaxLines
    /\ lines' = Append(lines, line)
    /\ LET s == ProcessLine(line) IN
       /\ pc' = IF s.kind \in {"emit", "break", "raise"} THEN "cancelled"
                ELSE "reading"
       /\ full_response' = IF s.kind = "emit" THEN full_response \o s.content
                           ELSE full_response
    /\ UNCHANGED <<req, call, posted, resp, conn, out, result>>
    /\ UNCHANGED <<received, pending, ready, caller, loop, tasks, client>>

\* The generator's frame is gone and the runtime collects the session and
\* the response it held, which closes the socket.
Collect ==
    /\ pc \in {"done", "cancelled"}
    /\ conn = "open"
    /\ conn' = "released"
    /\ UNCHANGED <<pc, req, call, posted, resp, lines, full_response, out, result>>
    /\ UNCHANGED <<received, pending, ready, caller, loop, tasks, client>>

(* ------------------------ the body on the wire ------------------------- *)

\* iter_content() delivers the next n bytes of the body; iter_lines splits
\* what it has into lines.
IterContent(n) ==
    /\ pc = "reading"
    /\ ready = <<>>
    /\ received + n <= Len(resp.text)
    /\ LET step == IterLinesChunk(pending,
                                  SubSeq(resp.text, received + 1, received + n))
       IN  ready' = step.lines /\ pending' = step.pending
    /\ received' = received + n
    /\ UNCHANGED <<request_vars, caller, loop, tasks, client>>

\* iter_lines yields the next line it has split off to the loop.
NextLine ==
    /\ ready # <<>>
    /\ LoopBody(Head(ready))
    /\ ready' = Tail(ready)
    /\ UNCHANGED <<received, pending, caller, loop, tasks, client>>

\* The body has ended: iter_lines yields the pending tail, if there is one.
FlushPending ==
    /\ pc = "reading"
    /\ ready = <<>>
    /\ received = Len(resp.text)
    /\ ~pending.isNone
    /\ ready' = <<pending.s>>
    /\ pending' = NonePending
    /\ UNCHANGED <<request_vars, received, caller, loop, tasks, client>>

\* The body has ended and iter_lines has nothing left to yield.
BodyEnd ==
    /\ ready = <<>>
    /\ received = Len(resp.text)
    /\ pending.isNone
    /\ StreamEnd

(* ------------------------------ handlers ------------------------------- *)

handle_stream_chat(r) == StreamingResponse(HandleStreamSelect(r))

chat(r, u) ==
    /\ pc = "idle"
    /\ req' = Request("/chat", r)
    /\ IF r.stream
       THEN handle_stream_chat(r)
       ELSE BufferedCall(ChatSelect(r), u, ChatErrorPrefix)

chat_stream(r) ==
    /\ pc = "idle"
    /\ LET r2 == [r EXCEPT !.stream = TRUE] IN
       /\ req' = Request("/chat/stream", r2)
       /\ handle_stream_chat(r2)

AnalyzeHandler(b, u) ==
    IF b.stream
    THEN StreamingResponse(Call("analyze_email_stream", <<b.email_content>>,
                                NoneHistory))
    ELSE BufferedCall(Call("analyze_email", <<b.email_content>>, NoneHistory), u,
                      EndpointErrorPrefix)

analyze_email(b, u) ==
    pc = "idle" /\ req' = Request("/analyze", b) /\ AnalyzeHandler(b, u)

analyze_email_stream(b, u) ==
    /\ pc = "idle"
    /\ LET b2 == [b EXCEPT !.stream = TRUE] IN
       req' = Request("/analyze/stream", b2) /\ AnalyzeHandler(b2, u)

RewriteHandler(b, u) ==
    IF b.stream
    THEN StreamingResponse(Call("rewrite_email_stream",
                                <<b.email_content, b.requirements>>, NoneHistory))
    ELSE BufferedCall(Call("rewrite_email", <<b.email_content, b.requirements>>,
                           NoneHistory), u,
                      EndpointErrorPrefix)

rewrite_email(b, u) ==
    pc = "idle" /\ req' = Request("/rewrite", b) /\ RewriteHandler(b, u)

rewrite_email_stream(b, u) ==
    /\ pc = "idle"
    /\ LET b2 == [b EXCEPT !.stream = TRUE] IN
       req' = Request("/rewrite/stream", b2) /\ RewriteHandler(b2, u)

TranslateHandler(b, u) ==
    IF b.stream
    THEN StreamingResponse(Call("translate_email_stream",
                                <<b.email_content, b.target_language>>,
                                NoneHistory))
    ELSE BufferedCall(Call("translate_email",
                           <<b.email_content, b.target_language>>, NoneHistory), u,
                      EndpointErrorPrefix)

translate_email(b, u) ==
    pc = "idle" /\ req' = Request("/translate", b) /\ TranslateHandler(b, u)

translate_email_stream(b, u) ==
    /\ pc = "idle"
    /\ LET b2 == [b EXCEPT !.stream = TRUE] IN
       req' = Request("/translate/stream", b2) /\ TranslateHandler(b2, u)

TemplateHandler(b, u) ==
    IF b.stream
    THEN StreamingResponse(Call("generate_email_template_stream", <<b.scenario>>,
                                NoneHistory))
    ELSE BufferedCall(Call("generate_email_template", <<b.scenario>>,
                           NoneHistory), u,
                      EndpointErrorPrefix)

generate_template(b, u) ==
    pc = "idle" /\ req' = Request("/template", b) /\ TemplateHandler(b, u)

generate_template_stream(b, u) ==
    /\ pc = "idle"
    /\ LET b2 == [b EXCEPT !.stream = TRUE] IN
       req' = Request("/template/stream", b2) /\ TemplateHandler(b2, u)

FollowUpHandler(b, u) ==
    IF b.stream
    THEN StreamingResponse(Call("generate_follow_up_email_stream",
                                <<b.previous_email, b.instruction>>, NoneHistory))
    ELSE BufferedCall(Call("generate_follow_up_email",
                           <<b.previous_email, b.instruction>>, NoneHistory), u,
                      EndpointErrorPrefix)

generate_follow_up(b, u) ==
    pc = "idle" /\ req' = Request("/follow_up", b) /\ FollowUpHandler(b, u)

generate_follow_up_stream(b, u) ==
    /\ pc = "idle"
    /\ LET b2 == [b EXCEPT !.stream = TRUE] IN
       req' = Request("/follow_up/stream", b2) /\ FollowUpHandler(b2, u)

(* --------------------------- specifications ---------------------------- *)

\* Requests arrive while the handler is idle.
Arriving(requests) == IF pc = "idle" THEN requests ELSE {}

\* Any handler, over the given request values.
Receive(chats, vals) ==
    \/ \E r \in Arriving(chats), u \in BufferedOutcomes : chat(r, u)
    \/ \E r \in Arriving(chats) : chat_stream(r)
    \/ \E b \in Arriving(AnalyzeRequests(vals)), u \in BufferedOutcomes :
          analyze_email(b, u)
    \/ \E b \in Arriving(AnalyzeRequests(vals)), u \in BufferedOutcomes :
          analyze_email_stream(b, u)
    \/ \E b \in Arriving(RewriteRequests(vals)), u \in BufferedOutcomes :
          rewrite_email(b, u)
    \/ \E b \in Arriving(RewriteRequests(vals)), u \in BufferedOutcomes :
          rewrite_email_stream(b, u)
    \/ \E b \in Arriving(TranslateRequests(vals)), u \in BufferedOutcomes :
          translate_email(b, u)
    \/ \E b \in Arriving(TranslateRequests(vals)), u \in BufferedOutcomes :
          translate_email_stream(b, u)
    \/ \E b \in Arriving(TemplateRequests(vals)), u \in BufferedOutcomes :
          generate_template(b, u)
    \/ \E b \in Arriving(TemplateRequests(vals)), u \in BufferedOutcomes :
          generate_template_stream(b, u)
    \/ \E b \in Arriving(FollowUpRequests(vals)), u \in BufferedOutcomes :
          generate_follow_up(b, u)
    \/ \E b \in Arriving(FollowUpRequests(vals)), u \in BufferedOutcomes :
          generate_follow_up_stream(b, u)

\* One request from its arrival to the end of its response.
Next ==
    \/ Receive(CoreChatRequests, {CoreVal})
    \/ \E u \in StreamOutcomes : StreamPost(u)
    \/ \E line \in UpstreamLines : ReadLine(line)
    \/ StreamEnd
    \/ \E e \in ReadErrors : ReadError(e)

Spec == Init /\ [][Next]_vars

\* Every request the dispatcher may receive, up to the POST it leads to.
NextDispatch ==
    \/ Receive(ChatRequests, Vals)
    \/ \E u \in StreamOutcomes : StreamPost(u)

SpecDispatch == Init /\ [][NextDispatch]_vars

\* Well-formed bodies as they go over the wire: events ended by a blank
\* line, by a single line feed or by CR LF, and a body cut off without a
\* final line end.
Wires ==
    LET e == [hi |-> DataMarker \o JsonDumps(ContentFrame(<<"Hi">>)),
              there |-> DataMarker \o JsonDumps(ContentFrame(<<" there">>)),
              role |-> DataMarker \o JsonDumps(RoleFrame),
              finish |-> DataMarker \o JsonDumps(FinishFrame),
              done |-> DataMarker \o DoneToken]
    IN
    {e.hi \o <<"\n", "\n">> \o e.there \o <<"\n", "\n">>
        \o e.done \o <<"\n", "\n">>,
     e.role \o <<"\n">> \o e.hi \o <<"\n">> \o e.finish \o <<"\n">>
        \o e.done \o <<"\n">>,
     e.there \o <<"\r", "\n", "\r", "\n">> \o e.hi \o <<"\r", "\n", "\r", "\n">>
        \o e.done \o <<"\r", "\n">>,
     e.hi \o <<"\n">> \o e.there}

\* One streaming request whose reply arrives in network chunks cut at
\* arbitrary places.
NextFragments ==
    \/ \E r \in Arriving({ChatRequest(<<"hello">>, NoneHistory, NoneStr,
                                        NoneDict, TRUE)}) : chat_stream(r)
    \/ \E w \in Wires : StreamPost(Responds(200, w))
    \/ \E n \in 1..(Len(resp.text) - received) : IterContent(n)
    \/ NextLine
    \/ FlushPending
    \/ BodyEnd

SpecFragments == Init /\ [][NextFragments]_vars

\* One streaming request whose caller may go away in the middle of the
\* stream. The upstream sends when it likes; the runtime collects what the
\* program has let go of.
NextCancel ==
    \/ \E r \in Arriving(CoreChatRequests) : chat_stream(r)
    \/ \E u \in StreamOutcomes : StreamPost(u)
    \/ \E line \in UpstreamLines : caller = "attached" /\ ReadLine(line)
    \/ \E line \in UpstreamLines : ReadLineDetached(line)
    \/ StreamEnd
    \/ \E e \in ReadErrors : ReadError(e)
    \/ Disconnect
    \/ Collect

SpecCancel == Init /\ [][NextCancel]_vars /\ WF_vars(Collect)

\* Two requests in flight on the one event loop of the process.
NextLoop ==
    \/ \E i \in Tasks, mode \in {"buffered", "stream"} : Accept(i, mode)
    \/ \E i \in Tasks, u \in BufferedOutcomes : PostReturns(i, u)
    \/ \E i \in Tasks : Resume(i)
    \/ \E i \in Tasks, u \in StreamOutcomes : StreamAnswered(i, u)
    \/ \E i \in Tasks :
          \E line \in {<<>>, DataMarker \o DoneToken, DataMarker \o Truncated}
                       \cup {DataMarker \o JsonDumps(ContentFrame(c)) :
                                 c \in Deltas} :
             Line(i, line)
    \/ \E i \in Tasks : BodyEnds(i)

SpecLoop == Init /\ [][NextLoop]_vars

(* ------------------------------ claims --------------------------------- *)


Streaming == call.op \in StreamOps
Buffered == call.op \in BufferedOps
Answered200 == ~resp.raises /\ resp.status_code = 200

\* The upstream lines by what the endpoint put in them.
ContentLine(c) == DataMarker \o JsonDumps(ContentFrame(c))
ContentLines == {<<ContentLine(c), c>> : c \in Deltas}
TerminatorLine == DataMarker \o DoneToken
FinishLines ==
    {DataMarker \o JsonDumps(f) :
        f \in {FinishFrame} \cup {FinishContentFrame(c) : c \in Deltas}}
UndecodableLines == {DataMarker \o Truncated, DataMarker \o Garbage}
UnshapedLines == {DataMarker \o JsonDumps(f) : f \in UnshapedFrames}
IsTrigger(line) == line = TerminatorLine \/ line \in FinishLines

RECURSIVE BeforeTrigger(_)
\* The lines that arrived before the first DONE trigger.
BeforeTrigger(q) ==
    IF q = <<>> \/ IsTrigger(Head(q)) THEN <<>>
    ELSE <<Head(q)>> \o BeforeTrigger(Tail(q))

RECURSIVE ContentsOf(_)
\* The content values of the content-carrying frames among lines, in order.
ContentsOf(q) ==
    IF q = <<>> THEN <<>>
    ELSE (IF \E e \in ContentLines : Head(q) = e[1]
          THEN <<(CHOOSE e \in ContentLines : Head(q) = e[1])[2]>>
          ELSE <<>>)
         \o ContentsOf(Tail(q))

RECURSIVE DeltaTexts(_)
\* The data of the chunks emitted with done=false, in order.
DeltaTexts(chunks) ==
    IF chunks = <<>> THEN <<>>
    ELSE (IF Head(chunks).done = JBool(FALSE) THEN <<Head(chunks).data.v>>
          ELSE <<>>)
         \o DeltaTexts(Tail(chunks))

\* The data texts of chunks 1..n, a null data counting as no text.
DataUpTo(chunks, n) == [i \in 1..n |-> chunks[i].data.v]

DoneIndexes == {i \in 1..Len(out) : out[i].done = JBool(TRUE)}

\* C1: in every streaming call the emitted chunks hold exactly one chunk with
\* done=true, it is the last one, and nothing is emitted after it, whatever
\* the upstream does.
C1_ExactlyOneDoneLast ==
    Streaming =>
        /\ \A i \in DoneIndexes : i = Len(out)
        /\ pc = "done" => DoneIndexes = {Len(out)} /\ out # <<>>

\* C2: when the POST raises or the initial status is not 200, the stream is
\* exactly one failure chunk with done=true whose msg embeds the error.
C2_SingleFailureChunk ==
    (Streaming /\ pc = "done" /\ ~Answered200) =>
        /\ Len(out) = 1
        /\ out[1].code = JNum(400)
        /\ out[1].data = JNull
        /\ out[1].done = JBool(TRUE)
        /\ IF resp.raises THEN Contains(out[1].msg.v, resp.exc.text)
           ELSE /\ Contains(out[1].msg.v, Dec(resp.status_code))
                /\ Contains(out[1].msg.v, resp.text)

\* A DONE trigger has occurred: the terminator line, a frame with a non-null
\* finish_reason, or the end of the upstream lines.
DoneTriggered ==
    \/ conn = "eof"
    \/ lines # <<>> /\ IsTrigger(Last(lines))

\* C3: after a 200 answer, each of the three DONE triggers is followed by
\* exactly one final chunk {code 200, data "", full = the accumulator,
\* done=true}, and the generator has ended.
C3_FinalChunkOnDone ==
    (Streaming /\ Answered200 /\ DoneTriggered) =>
        /\ pc = "done"
        /\ out # <<>>
        /\ Last(out) = [code |-> JNum(200), data |-> JStr(<<>>),
                        full |-> JStr(full_response),
                        msg |-> JStr(<<"Success">>), done |-> JBool(TRUE)]
        /\ DoneIndexes = {Len(out)}
        /\ \A i \in 1..(Len(out) - 1) : out[i].done = JBool(FALSE)

C3_Witness ==
    /\ Streaming /\ Answered200 /\ conn = "eof"
    /\ Len(out) = 3
    /\ full_response = <<"Hi", " there">>

\* C4 as stated: the full of every emitted chunk is the concatenation of the
\* data of the chunks up to it.
C4_FullIsConcatAll ==
    Streaming =>
        \A n \in 1..Len(out) : out[n].full = JStr(ConcatAll(DataUpTo(out, n)))

\* C4 amended: the full of every emitted chunk with code 200 (each delta
\* chunk and the completion chunk) is the concatenation of the data of the
\* chunks up to it; a failure chunk carries no full.
C4_FullIsConcat200 ==
    Streaming =>
        \A n \in 1..Len(out) :
            IF out[n].code = JNum(200)
            THEN out[n].full = JStr(ConcatAll(DataUpTo(out, n)))
            ELSE out[n].full = Absent

C4_Witness ==
    /\ Streaming /\ pc = "done"
    /\ Len(out) = 3
    /\ out[2].full = JStr(<<"Hi", " there">>)
    /\ out[3].done = JBool(TRUE) /\ out[3].full = JStr(<<"Hi", " there">>)

\* C5: the data of the done=false chunks are, in arrival order, the content
\* values of the content frames received before the first DONE trigger.
C5_DeltasInArrivalOrder ==
    Streaming => DeltaTexts(out) = ContentsOf(BeforeTrigger(lines))

C5_Witness ==
    /\ Streaming /\ pc = "done"
    /\ lines = <<ContentLine(<<" there">>), ContentLine(<<"Hi">>), TerminatorLine>>
    /\ DeltaTexts(out) = <<(<<" there">>), (<<"Hi">>)>>

\* What C6 says of a set of unparseable lines: such a line emits nothing,
\* leaves the accumulator alone and does not end the stream, and the content
\* frames around it are all emitted with code 200.
SkippedSilently(bad) ==
    (Streaming /\ \E i \in 1..Len(lines) : lines[i] \in bad) =>
        /\ (Last(lines) \in bad /\ conn = "open") =>
               pc = "reading" /\ Len(out) = Len(ContentsOf(lines))
        /\ DeltaTexts(out) = ContentsOf(BeforeTrigger(lines))
        /\ full_response = ConcatAll(ContentsOf(BeforeTrigger(lines)))
        /\ \A k \in 1..Len(out) :
               out[k].done = JBool(FALSE) => out[k].code = JNum(200)

ReplyValues == {JStr(c) : c \in Replies} \cup {JNull}
ExtractableBodies == {JsonDumps(ReplyBody(x)) : x \in ReplyValues}
ReplyOf(text) == CHOOSE x \in ReplyValues : JsonDumps(ReplyBody(x)) = text

\* C7: generate_response never raises: whatever the upstream does, the
\* buffered call returns one envelope {code, data, msg} of its own, with code
\* 200 and the extracted reply when the status was 200 and the reply could be
\* extracted, and otherwise code 400, data null and the exception or failure
\* text in msg.
C7_OneEnvelopeNeverRaises ==
    (Buffered /\ pc = "done") =>
        /\ result # NoResult
        /\ IF Answered200 /\ resp.text \in ExtractableBodies
           THEN result = [code |-> JNum(200), data |-> ReplyOf(resp.text),
                          msg |-> JStr(<<"Success">>)]
           ELSE /\ result.code = JNum(400)
                /\ result.data = JNull
                /\ IF resp.raises
                   THEN result.msg = JStr(<<"An error occurred: ">> \o resp.exc.text)
                   ELSE IF resp.status_code # 200
                   THEN /\ Contains(result.msg.v, Dec(resp.status_code))
                        /\ Contains(result.msg.v, resp.text)
                   ELSE /\ StartsWith(result.msg.v, <<"An error occurred: ">>)
                        /\ Len(result.msg.v) > 1

C7_Witness ==
    /\ Buffered /\ pc = "done"
    /\ Answered200 /\ resp.text = Garbage
    /\ result.code = JNum(400)

\* C8: a buffered call answered with a status s other than 200 returns code
\* 400 (not s), data null, and a msg that contains the decimal s and the raw
\* body text.
C8_StatusFailureEnvelope ==
    (Buffered /\ pc = "done" /\ ~resp.raises /\ resp.status_code # 200) =>
        /\ result.code = JNum(400)
        /\ result.data = JNull
        /\ Contains(result.msg.v, Dec(resp.status_code))
        /\ Contains(result.msg.v, resp.text)

C8_Witness ==
    /\ Buffered /\ pc = "done"
    /\ ~resp.raises /\ resp.status_code = 500
    /\ resp.text = <<"Internal Server Error">>
    /\ Contains(result.msg.v, <<"5", "0", "0">>)

OnChat == req.endpoint \in {"/chat", "/chat/stream"}

\* The request names one of the five operations and carries a non-empty
\* parameters dictionary with every key the operation requires.
NamedComplete(r) ==
    /\ ~r.action.isNone
    /\ r.action.s \in KnownActions
    /\ ~r.parameters.isNone
    /\ DOMAIN r.parameters.d # {}
    /\ RequiredKeys(r.action.s) \subseteq DOMAIN r.parameters.d

\* C9: on /chat, buffered or streaming, an unknown action, or a known action
\* whose parameters are absent, empty or lack a required key, is handled as
\* plain chat with the caller's own message and history, and never as an error.
C9_FallbackToPlainChat ==
    (OnChat /\ call # NoCall /\ ~NamedComplete(req.body)) =>
        /\ call = Call(IF req.body.stream THEN "generate_stream_response"
                       ELSE "generate_response",
                       <<req.body.message>>, req.body.history)
        /\ posted # <<>> =>
              Last(posted).messages =
                  <<Message("system", system_prompt)>>
                  \o (IF req.body.history.isNone THEN <<>> ELSE req.body.history.q)
                  \o <<Message("user", req.body.message)>>
        /\ result # NoResult => result.msg.v[1] # ChatErrorPrefix

C9_Witness ==
    /\ req.endpoint = "/chat" /\ req.body.stream
    /\ req.body.action = SomeStr("rewrite")
    /\ ~req.body.parameters.isNone
    /\ DOMAIN req.body.parameters.d = {"email_content"}
    /\ ~req.body.history.isNone /\ Len(req.body.history.q) = 2
    /\ posted # <<>>
    /\ Last(posted).messages[4] = Message("user", <<"thanks">>)

\* Each buffered client method and its streaming counterpart.
BufferedTwin(op) ==
    CASE op \in {"generate_response", "generate_stream_response"} ->
            "generate_response"
      [] op \in {"analyze_email", "analyze_email_stream"} -> "analyze_email"
      [] op \in {"rewrite_email", "rewrite_email_stream"} -> "rewrite_email"
      [] op \in {"translate_email", "translate_email_stream"} -> "translate_email"
      [] op \in {"generate_email_template", "generate_email_template_stream"} ->
            "generate_email_template"
      [] OTHER -> "generate_follow_up_email"

StreamTwin(op) ==
    IF BufferedTwin(op) = "generate_response" THEN "generate_stream_response"
    ELSE IF BufferedTwin(op) = "generate_email_template"
    THEN "generate_email_template_stream"
    ELSE IF BufferedTwin(op) = "generate_follow_up_email"
    THEN "generate_follow_up_email_stream"
    ELSE IF BufferedTwin(op) = "analyze_email" THEN "analyze_email_stream"
    ELSE IF BufferedTwin(op) = "rewrite_email" THEN "rewrite_email_stream"
    ELSE "translate_email_stream"

\* C10: for every operation and every parameter assignment, the buffered
\* method and its streaming counterpart send the same message list, and
\* their payloads differ in the stream flag alone.
C10_SameConversationBothModes ==
    posted # <<>> =>
        LET b == ResponsePayload([call EXCEPT !.op = BufferedTwin(call.op)])
            st == StreamPayload([call EXCEPT !.op = StreamTwin(call.op)])
        IN  /\ Last(posted) \in {b, st}
            /\ b.messages = st.messages
            /\ [b EXCEPT !.stream = TRUE] = st

PlainOps == {"generate_response", "generate_stream_response"}

\* C11: every conversation sent upstream is the fixed system prompt, then the
\* history handed to the client unchanged and in order, then one new user
\* message; the caller's own history is what it was.
C11_SystemHistoryUser ==
    posted # <<>> =>
        LET m == Last(posted).messages
            h == IF call.history.isNone THEN <<>> ELSE call.history.q
        IN  /\ Len(m) = Len(h) + 2
            /\ m[1] = Message("system", system_prompt)
            /\ \A i \in 1..Len(h) : m[i + 1] = h[i]
            /\ m[Len(m)].role = "user"
            /\ call.op \in PlainOps =>
                  /\ m[Len(m)].content = req.body.message
                  /\ req.body.history = call.history
                  /\ req.body.history \in Histories
            /\ call.op \notin PlainOps => call.history = NoneHistory

C11_Witness ==
    /\ posted # <<>>
    /\ call.op = "generate_stream_response"
    /\ Len(Last(posted).messages) = 4
    /\ Last(posted).messages[2] = Message("user", <<"hi">>)
    /\ Last(posted).messages[3] = Message("assistant", <<"Hello!">>)
    /\ Last(posted).messages[4] = Message("user", <<"hello">>)

\* The values of the parameters the requested operation requires.
RequiredValues ==
    IF OnChat
    THEN {req.body.parameters.d[k] : k \in RequiredKeys(req.body.action.s)}
    ELSE {req.body[k] : k \in DOMAIN req.body \ {"stream"}}

UserTurn == Last(Last(posted).messages).content

\* C12: the user turn of each templated operation, buffered or streaming,
\* contains the value of every required parameter as a contiguous run; the
\* user turn of plain chat is the caller's message and nothing else.
C12_PromptHoldsParameters ==
    posted # <<>> =>
        IF OnChat /\ ~NamedComplete(req.body)
        THEN UserTurn = req.body.message
        ELSE /\ RequiredValues # {}
             /\ \A v \in RequiredValues : Contains(UserTurn, v)
             /\ Len(UserTurn) > Cardinality(RequiredValues)

C12_Witness ==
    /\ posted # <<>>
    /\ req.endpoint = "/chat" /\ req.body.stream
    /\ req.body.action = SomeStr("follow_up")
    /\ NamedComplete(req.body)
    /\ req.body.parameters.d["previous_email"] = <<"Hi, pls send the report asap.">>
    /\ req.body.parameters.d["instruction"] = <<"formal">>
    /\ Contains(UserTurn, <<"formal">>)

\* C17: a request issues one POST and no more, whatever the outcome: a
\* transport exception, a failure status, a malformed body or an error in
\* the middle of the stream is followed by no second POST.
C17_ExactlyOnePost ==
    /\ Len(posted) <= 1
    /\ pc \in {"reading", "done"} => Len(posted) = 1
    /\ posted # <<>> =>
          /\ Last(posted).stream = Streaming
          /\ Last(posted).messages[Len(Last(posted).messages)].role = "user"

C17_Witness ==
    /\ Buffered /\ pc = "done"
    /\ ~resp.raises /\ resp.status_code = 429
    /\ result.code = JNum(400)
    /\ Len(posted) = 1

TriggerIndexes == {i \in 1..Len(lines) : IsTrigger(lines[i])}
FinishContentLine(c) == DataMarker \o JsonDumps(FinishContentFrame(c))

\* C18: once a terminator line or a frame with a non-null finish_reason has
\* been read, no further line is read and no delta is emitted for that frame:
\* the chunks are the deltas of the content frames before the trigger and the
\* final chunk, and the accumulated text is the concatenation of those deltas.
C18_NothingAfterTrigger ==
    (Streaming /\ TriggerIndexes # {}) =>
        LET before == SubSeq(lines, 1, Len(lines) - 1) IN
        /\ TriggerIndexes = {Len(lines)}
        /\ pc = "done"
        /\ Len(out) = Len(ContentsOf(before)) + 1
        /\ \A k \in 1..(Len(out) - 1) : out[k].data = JStr(ContentsOf(before)[k])
        /\ full_response = ConcatAll(ContentsOf(before))
        /\ Last(out).data = JStr(<<>>)
        /\ Last(out).full = JStr(ConcatAll(ContentsOf(before)))

C18_Witness ==
    /\ Streaming /\ pc = "done"
    /\ lines = <<ContentLine(<<"Hi">>), FinishContentLine(<<" there">>)>>
    /\ Len(out) = 2
    /\ full_response = <<"Hi">>

\* The client method each action names, and the parameter keys its
\* positional arguments are read from, in order.
MethodOf(action) ==
    CASE action = "analyze" -> "analyze_email"
      [] action = "rewrite" -> "rewrite_email"
      [] action = "translate" -> "translate_email"
      [] action = "template" -> "generate_email_template"
      [] OTHER -> "generate_follow_up_email"

ArgKeys(action) ==
    CASE action = "analyze" -> <<"email_content">>
      [] action = "rewrite" -> <<"email_content", "requirements">>
      [] action = "translate" -> <<"email_content", "target_language">>
      [] action = "template" -> <<"scenario">>
      [] OTHER -> <<"previous_email", "instruction">>

\* C19: chat and handle_stream_chat select the same operation kind for the
\* same action and parameters: a named operation exactly when the action is
\* one of the five and the parameters hold all its required keys, called with
\* exactly those values; the stream flag alone decides the variant.
C19_SameSelection ==
    (OnChat /\ call # NoCall) =>
        LET r == req.body
            b == ChatSelect(r)
            st == HandleStreamSelect(r)
        IN  /\ (call.op \in StreamOps) = r.stream
            /\ call = IF r.stream THEN st ELSE b
            /\ b.op \in BufferedOps /\ st.op \in StreamOps
            /\ st.op = StreamTwin(b.op)
            /\ st.args = b.args /\ st.history = b.history
            /\ IF NamedComplete(r)
               THEN /\ b.op = MethodOf(r.action.s)
                    /\ b.args = [i \in 1..Len(ArgKeys(r.action.s)) |->
                                    r.parameters.d[ArgKeys(r.action.s)[i]]]
               ELSE b.op = "generate_response"

C19_Witness ==
    /\ req.endpoint = "/chat" /\ ~req.body.stream
    /\ req.body.action = SomeStr("rewrite")
    /\ call = Call("rewrite_email",
                   <<(<<"Hi, pls send the report asap.">>), (<<"formal">>)>>,
                   NoneHistory)

\* C20: the streaming path forwards as it reads: the content frames consumed
\* never exceed the delta chunks emitted by more than one, and while the
\* upstream is still being read every content frame consumed has already
\* been emitted.
C20_ForwardsIncrementally ==
    Streaming =>
        /\ Len(ContentsOf(lines)) - Len(DeltaTexts(out)) <= 1
        /\ (pc = "reading" /\ ContentsOf(lines) # <<>>) =>
              /\ out # <<>>
              /\ DeltaTexts(out) = ContentsOf(lines)

C20_Witness ==
    /\ Streaming /\ pc = "reading"
    /\ lines = <<ContentLine(<<"Hi">>), ContentLine(<<" there">>)>>
    /\ Len(out) = 2
    /\ out[2].done = JBool(FALSE)

RECURSIVE DeltasOf(_)
\* The delta texts the loop emits when it is handed the lines ls one by one.
DeltasOf(ls) ==
    IF ls = <<>> THEN <<>>
    ELSE LET s == ProcessLine(Head(ls)) IN
         CASE s.kind = "emit" -> <<s.content>> \o DeltasOf(Tail(ls))
           [] s.kind \in {"break", "raise"} -> <<>>
           [] OTHER -> DeltasOf(Tail(ls))

\* The delta texts of the body fed in one piece.
Unfragmented == DeltasOf(SplitLines(resp.text))

\* C13: however the body of a well-formed reply is cut into network chunks,
\* the delta texts emitted are those of the body fed in one piece; while the
\* body is still arriving they are a prefix of them.
C13_FragmentationInvariant ==
    (Streaming /\ Answered200) =>
        /\ Len(DeltaTexts(out)) <= Len(Unfragmented)
        /\ DeltaTexts(out) = SubSeq(Unfragmented, 1, Len(DeltaTexts(out)))
        /\ pc = "done" =>
              /\ DeltaTexts(out) = Unfragmented
              /\ full_response = ConcatAll(Unfragmented)

\* A chunk ended inside the JSON of the second frame after the first delta
\* had come out.
C13_Witness ==
    /\ Streaming /\ pc = "reading"
    /\ DeltaTexts(out) = <<(<<"Hi">>)>>
    /\ pending = SomePending(SubSeq(ContentLine(<<" there">>), 1, 12))
    /\ Len(Unfragmented) = 2

\* C14: when the caller stops consuming in the middle of the stream, the
\* upstream connection opened for the request is eventually closed; a
\* detached caller never has its upstream connection open for ever.
C14_DetachedConnectionClosed ==
    (caller = "detached") ~> (conn # "open")

\* Request i is inside a call that returns when the upstream answers: the
\* POST round trip, or the read of the next line of the response.
WaitingUpstream(i) == tasks[i].pc \in {"posting", "reading"}

\* Request j has a generator the loop could resume.
ReadyToRun(j) == tasks[j].pc \in {"created", "yielded"}

\* C15: a request waiting on the upstream never keeps another from making
\* progress: whenever one request is suspended on upstream I/O, a step of
\* every other ready request is enabled.
C15_WaitingBlocksNobody ==
    \A i \in Tasks, j \in Tasks :
        (i # j /\ WaitingUpstream(i) /\ ReadyToRun(j)) => ENABLED Resume(j)

\* C16: under every interleaving each request's chunks, accumulated text and
\* envelope are made of its own upstream answer alone, and the shared client
\* configuration stays what it was at startup.
C16_RequestsIsolated ==
    /\ client = DeepSeekClient
    /\ \A i \in Tasks :
          LET t == tasks[i]
              own == ContentsOf(BeforeTrigger(t.lines))
          IN  /\ DeltaTexts(t.out) = own
              /\ t.full_response = ConcatAll(own)
              /\ \A n \in 1..Len(t.out) :
                    t.out[n].code = JNum(200) =>
                        t.out[n].full = JStr(ConcatAll(DataUpTo(t.out, n)))
              /\ (t.mode = "buffered" /\ t.pc = "done") =>
                    /\ t.out = <<>>
                    /\ t.result = GenerateResponse(t.resp).value

\* Two streams interleaved chunk by chunk, each with a text of its own.
C16_Witness ==
    /\ tasks[1].mode = "stream" /\ tasks[2].mode = "stream"
    /\ tasks[1].full_response = <<"Hi", " there">>
    /\ tasks[2].full_response = <<" there", "Hi">>
    /\ Len(tasks[1].out) = 2 /\ Len(tasks[2].out) = 2

\* The lines whose handling raises something other than a JSON decode
\* error: valid JSON without the frame shape or with a null content, and
\* bytes that are not UTF-8.
RaisingLines == UnshapedLines \cup {<<BadByte>>}

\* An error other than a JSON decode failure has ended the stream: the read
\* raised, or the last line was one whose handling raises.
MidStreamError ==
    \/ conn = "broken"
    \/ lines # <<>> /\ Last(lines) \in RaisingLines

\* C21: when an error other than a JSON decode failure occurs after k delta
\* chunks, the chunks are those k deltas and then one failure chunk with code
\* 400, data null, the exception text in msg and done=true; no code-200 done
\* chunk is emitted and the failure chunk has no accumulated text.
C21_FailureAfterDeltas ==
    (Streaming /\ Answered200 /\ MidStreamError) =>
        LET handled == IF conn = "broken" THEN lines
                       ELSE SubSeq(lines, 1, Len(lines) - 1)
            deltas == ContentsOf(handled)
            k == Len(out) - 1
        IN  /\ pc = "done"
            /\ k = Len(deltas)
            /\ \A i \in 1..k :
                  out[i] = [code |-> JNum(200), data |-> JStr(deltas[i]),
                            full |-> JStr(ConcatAll(SubSeq(deltas, 1, i))),
                            msg |-> JStr(<<"Success">>), done |-> JBool(FALSE)]
            /\ Last(out).code = JNum(400)
            /\ Last(out).data = JNull
            /\ Last(out).done = JBool(TRUE)
            /\ Last(out).full = Absent
            /\ StartsWith(Last(out).msg.v, <<"An error occurred: ">>)
            /\ Len(Last(out).msg.v) > 1
            /\ conn = "broken" => Contains(Last(out).msg.v, <<"Connection broken">>)
            /\ (conn # "broken"
                /\ Last(lines) = DataMarker \o JsonDumps(EmptyChoicesFrame)) =>
                  Contains(Last(out).msg.v, <<"list index out of range">>)
            /\ \A i \in 1..Len(out) :
                  ~(out[i].code = JNum(200) /\ out[i].done = JBool(TRUE))

C21_Witness ==
    /\ Streaming /\ pc = "done"
    /\ lines = <<ContentLine(<<"Hi">>), DataMarker \o JsonDumps(NullContentFrame)>>
    /\ Len(out) = 2
    /\ out[1].data = JStr(<<"Hi">>)
    /\ out[2].code = JNum(400) /\ out[2].done = JBool(TRUE)

\* The client call the dispatcher of /chat would make for the request that
\* was received, had it carried message m and history h instead of its own.
SelectionWith(m, h) ==
    LET r == [req.body EXCEPT !.message = m, !.history = h]
    IN  IF call.op \in StreamOps THEN HandleStreamSelect(r) ELSE ChatSelect(r)

\* C22: a named operation reached through /chat with valid parameters,
\* buffered or streaming, sends the system prompt and the templated user turn
\* and nothing else, whatever history and message the caller supplied; plain
\* chat and every fallback to it send the system prompt, the caller's whole
\* history and the caller's message.
C22_NamedDropsHistory ==
    (OnChat /\ posted # <<>>) =>
        LET m == Last(posted).messages
            h == IF req.body.history.isNone THEN <<>> ELSE req.body.history.q
        IN  IF NamedComplete(req.body)
            THEN /\ call.op \notin PlainOps
                 /\ Len(m) = 2
                 /\ m[1] = Message("system", system_prompt)
                 /\ m[2] = Message("user", UserMessage(call))
                 /\ ~Contains(m[2].content, req.body.message)
                 /\ \A i \in 1..Len(h) : ~Contains(m[2].content, h[i].content)
                 /\ \A b \in Msgs, q \in Histories : SelectionWith(b, q) = call
            ELSE /\ call.op \in PlainOps
                 /\ m = <<Message("system", system_prompt)>> \o h
                        \o <<Message("user", req.body.message)>>

\* A streaming rewrite asked for by a caller who sent a history of two
\* turns.
C22_Witness ==
    /\ req.endpoint = "/chat" /\ posted # <<>>
    /\ ~req.body.history.isNone /\ Len(req.body.history.q) = 2
    /\ req.body.stream
    /\ req.body.action = SomeStr("rewrite")
    /\ NamedComplete(req.body)
    /\ Len(Last(posted).messages) = 2
    /\ Contains(UserTurn, <<"formal">>)

\* The lines that do not start with the marker: the blank line, the SSE
\* comment, data: without its space, and the line that is not UTF-8.
NoMarkerLines == {l \in UpstreamLines : ~StartsWith(l, DataMarker)}

\* The lines line.decode('utf-8') raises on.
NotUtf8Lines == {l \in UpstreamLines : \E i \in 1..Len(l) : l[i] = BadByte}

\* The loop body handling a line of ignored changes neither the chunks, nor
\* the accumulator, nor the state of the read.
LineIgnored(ignored) ==
    (pc = "reading" /\ Len(lines') = Len(lines) + 1 /\ Last(lines') \in ignored) =>
        /\ out' = out
        /\ full_response' = full_response
        /\ pc' = "reading"
        /\ conn' = conn

\* C23 as stated: a blank line and every non-blank line that does not start
\* with 'data: ' emit no chunk and leave the accumulator and the reading
\* state unchanged, and reading continues with the next line.
C23_NoMarkerIgnored ==
    [][LineIgnored(NoMarkerLines)]_vars

\* C23 amended: a blank line and every non-blank line that decodes as UTF-8
\* and does not start with 'data: ' emit no chunk and leave the accumulator
\* and the reading state unchanged, and reading continues with the next line.
C23_DecodedNoMarkerIgnored ==
    [][LineIgnored(NoMarkerLines \ NotUtf8Lines)]_vars

\* A blank line and data: without its space are passed over, and the content
\* frame after them is the first chunk.
C23_Witness ==
    /\ Streaming /\ pc = "reading"
    /\ lines = <<<<>>, <<"d", "a", "t", "a", ":">> \o JsonDumps(ContentFrame(<<"Hi">>)),
                 ContentLine(<<"Hi">>)>>
    /\ Len(out) = 1
    /\ out[1].data = JStr(<<"Hi">>) /\ out[1].full = JStr(<<"Hi">>)

====
